---- MODULE Spec2Model ----
(***************************************************************************)
(* A model of bevy-boids (src/main.rs): the entity/component store that    *)
(* setup fills, the four systems registered in main (the chain             *)
(* boid_sense -> boid_control, velocity, angular_velocity, mouse_boid),    *)
(* and the frame loop that runs each of them once per tick in an order     *)
(* the stage's scheduler chooses.                                          *)
(*                                                                         *)
(* Numbers.  f32 vectors are points of the integer lattice (z is 0 in the  *)
(* whole program and is dropped; cross(..).z is the planar cross product). *)
(* A direction (a normalized vector, a rotation about z) is the primitive  *)
(* lattice vector pointing that way, so normalize() is division by the gcd *)
(* and the product of two rotations is the complex product.  An angle is   *)
(* kept exactly, as the direction it turns to plus its sign or winding.    *)
(* NaN is a value of every numeric type, produced by 0/0 and by            *)
(* normalizing the zero vector, and it propagates through arithmetic.      *)
(***************************************************************************)
EXTENDS Integers, Sequences, FiniteSets, TLC

VARIABLES
  components,     \* entity -> set of component type names (World archetypes)
  translation,    \* entity -> Transform.translation
  rotation,       \* entity -> Transform.rotation (unit complex number)
  boid,           \* entity -> Boid { neighbor_radius, personal_radius }
  speed,          \* entity -> Velocity.0
  ang_vel,        \* entity -> AngularVelocity.0
  sensory_data,   \* SensoryData piped from boid_sense into boid_control
  ran,            \* systems of the stage that have finished in this tick
  tick,           \* number of ticks started
  dt,             \* Time::delta_seconds() of this tick
  cursor_events,  \* CursorMoved events of this tick not yet read
  panicked        \* an unwrap() failed: the app has aborted

vars == <<components, translation, rotation, boid, speed, ang_vel,
          sensory_data, ran, tick, dt, cursor_events, panicked>>

(***************************************************************************)
(* Bounds of the model.                                                    *)
(***************************************************************************)
MaxBoids == 2
MaxTicks == 1

(***************************************************************************)
(* f32 / Vec3 arithmetic.                                                  *)
(***************************************************************************)
Abs(n) == IF n < 0 THEN -n ELSE n

RECURSIVE Gcd(_, _)
Gcd(a, b) == IF b = 0 THEN a ELSE Gcd(b, a % b)

Vec(x, y) == [nan |-> FALSE, x |-> x, y |-> y]
NAN_VEC == [nan |-> TRUE, x |-> 0, y |-> 0]
ZERO == Vec(0, 0)
Y == Vec(0, 1)
IDENTITY == Vec(1, 0)

is_nan(v) == v.nan

VAdd(a, b) == IF a.nan \/ b.nan THEN NAN_VEC ELSE Vec(a.x + b.x, a.y + b.y)
VSub(a, b) == IF a.nan \/ b.nan THEN NAN_VEC ELSE Vec(a.x - b.x, a.y - b.y)

\* Vec3::normalize: v * (1 / |v|); the zero vector gives 0 * inf = NaN.
normalize(v) ==
  IF v.nan \/ (v.x = 0 /\ v.y = 0) THEN NAN_VEC
  ELSE LET g == Gcd(Abs(v.x), Abs(v.y)) IN Vec(v.x \div g, v.y \div g)

\* Product of two rotations about z (Quat * Quat), and Quat::mul_vec3.
CMul(a, b) ==
  IF a.nan \/ b.nan THEN NAN_VEC
  ELSE Vec(a.x * b.x - a.y * b.y, a.x * b.y + a.y * b.x)

mul_vec3(q, v) == CMul(q, v)

Dot(a, b) == a.x * b.x + a.y * b.y
CrossZ(a, b) == a.x * b.y - a.y * b.x

\* Vec3::distance(a, b) <= radius, decided on the squares (radius >= 0).
Distance2(a, b) == (a.x - b.x) * (a.x - b.x) + (a.y - b.y) * (a.y - b.y)

\* variant: the comparison exclusive (distance < radius)
is_neighbor_lt(d2, radius) == radius >= 0 /\ d2 < radius * radius

is_neighbor(d2, radius) == radius >= 0 /\ d2 <= radius * radius

distance_le(a, b, radius) ==
  ~a.nan /\ ~b.nan /\ is_neighbor(Distance2(a, b), radius)

(***************************************************************************)
(* Angles.  The result of angle_between is [c, s] with s >= 0, the         *)
(* primitive vector (dot, |cross|); neg says the angle is negated.  The    *)
(* angle pi is c < 0, s = 0.  -0.0 equals 0.0, so the zero angle is never  *)
(* marked negated.                                                         *)
(***************************************************************************)
Angle(c, s, neg) == [nan |-> FALSE, c |-> c, s |-> s, neg |-> neg]
NAN_ANGLE == [nan |-> TRUE, c |-> 0, s |-> 0, neg |-> FALSE]
ZERO_ANGLE == Angle(1, 0, FALSE)

angle_between(a, b) ==
  IF a.nan \/ b.nan \/ a = ZERO \/ b = ZERO THEN NAN_ANGLE
  ELSE LET d == normalize(Vec(Dot(a, b), Abs(CrossZ(a, b))))
       IN Angle(d.x, d.y, FALSE)

NegAngle(a) ==
  IF a.nan \/ (a.s = 0 /\ a.c > 0) THEN a ELSE [a EXCEPT !.neg = ~a.neg]

\* variant: the turn direction taken from the dot product, not from cross.z
radians_to_by_dot(forward, desired) ==
  IF ~desired.nan /\ desired = ZERO THEN ZERO_ANGLE
  ELSE LET delta == angle_between(forward, desired)
       IN IF ~forward.nan /\ ~desired.nan /\ Dot(forward, desired) > 0
          THEN delta ELSE NegAngle(delta)

radians_to(forward, desired) ==
  IF ~desired.nan /\ desired = ZERO THEN ZERO_ANGLE
  ELSE LET delta == angle_between(forward, desired)
       IN IF ~forward.nan /\ ~desired.nan /\ CrossZ(forward, desired) > 0
          THEN delta ELSE NegAngle(delta)

(***************************************************************************)
(* The f32 stored in AngularVelocity.  The value (a1 + a2) / 2.0 is kept   *)
(* as the exact sum a1 + a2 in [-2pi, 2pi]: the direction [c, s] of the    *)
(* sum, with atan2(s, c) in (-pi, pi], and the number k of whole turns to  *)
(* add to it.                                                              *)
(***************************************************************************)
F32(c, s, k) == [nan |-> FALSE, c |-> c, s |-> s, k |-> k]
NAN_F32 == [nan |-> TRUE, c |-> 0, s |-> 0, k |-> 0]
ZERO_F32 == F32(1, 0, 0)
HALF_PI == F32(-1, 0, 0)

\* the signed angle as a unit complex number
UnitOf(a) == Vec(a.c, IF a.neg THEN -a.s ELSE a.s)
\* -pi is the principal angle pi less one turn
TurnsOf(a) == IF a.neg /\ a.s = 0 /\ a.c < 0 THEN -1 ELSE 0
Upper(u) == u.y > 0 \/ (u.y = 0 /\ u.x < 0)
Lower(u) == u.y < 0

HalfSum(a1, a2) ==
  IF a1.nan \/ a2.nan THEN NAN_F32
  ELSE LET u1 == UnitOf(a1)
           u2 == UnitOf(a2)
           z  == normalize(CMul(u1, u2))
           carry == IF Upper(u1) /\ Upper(u2) /\ ~Upper(z) THEN 1
                    ELSE IF Lower(u1) /\ Lower(u2) /\ Upper(z) THEN -1
                    ELSE 0
       IN F32(z.x, z.y, TurnsOf(a1) + TurnsOf(a2) + carry)

RECURSIVE CPow(_, _)
CPow(z, n) == IF n = 0 THEN IDENTITY ELSE normalize(CMul(z, CPow(z, n - 1)))

\* Quat::from_rotation_z(ang_vel.0 * delta): delta is a whole number of
\* seconds and even, so the angle is a multiple of the stored sum.
from_rotation_z(w, delta) ==
  IF w.nan THEN NAN_VEC ELSE CPow(Vec(w.c, w.s), delta \div 2)

\* the integer nearest to len * a / sqrt(n2), for a >= 0
RoundScaled(len, a, n2) ==
  CHOOSE n \in 0..len :
    /\ (n = 0 \/ (2 * n - 1) * (2 * n - 1) * n2 <= 4 * len * len * a * a)
    /\ 4 * len * len * a * a < (2 * n + 1) * (2 * n + 1) * n2

\* len * direction, for a unit vector given by the lattice vector d
Scaled(len, d) ==
  IF d.nan THEN NAN_VEC
  ELSE LET n2 == d.x * d.x + d.y * d.y
           sx == RoundScaled(len, Abs(d.x), n2)
           sy == RoundScaled(len, Abs(d.y), n2)
       IN Vec(IF d.x < 0 THEN -sx ELSE sx, IF d.y < 0 THEN -sy ELSE sy)

(***************************************************************************)
(* The entity/component store and the systems' queries.  A query matches   *)
(* the entities whose archetype holds every component type it names.       *)
(* With<T> names the one component type T; in this engine every            *)
(* Send + Sync + 'static type is a component type, a tuple included, so    *)
(* With<(Transform, PseudoBoid)> names the tuple type itself, not its two  *)
(* members.                                                                *)
(***************************************************************************)
Entities == DOMAIN components

With(c) == {e \in Entities : c \in components[e]}

RECURSIVE Iter(_)
Iter(S) ==
  IF S = {} THEN <<>>
  ELSE LET m == CHOOSE x \in S : \A y \in S : x <= y
       IN <<m>> \o Iter(S \ {m})

Range(q) == {q[i] : i \in DOMAIN q}

\* boid_sense: boids: Query<(Entity, &Boid, &Transform)>
SenseBoids == With("Boid") \cap With("Transform")

\* variant: the filter written (With<Transform>, With<PseudoBoid>)
PseudoBoidsMembers == With("Transform") \cap With("PseudoBoid")

\* variant: the filter written With<PseudoBoid>
PseudoBoidsMarker == With("PseudoBoid")

\* boid_sense: pseudo_boids: Query<Entity, With<(Transform, PseudoBoid)>>
PseudoBoids == With("(Transform, PseudoBoid)")

\* boid_control: boids: Query<Entity, (With<Transform>, With<Boid>)>
ControlBoids == With("Transform") \cap With("Boid")
\* boid_control: transforms: Query<&Transform, With<Boid>>
Transforms == With("Transform") \cap With("Boid")
\* boid_control: ang_velocities: Query<&mut AngularVelocity, With<Boid>>
AngVelocities == With("AngularVelocity") \cap With("Boid")
\* velocity: Query<(&Velocity, &mut Transform)>
VelocityQuery == With("Velocity") \cap With("Transform")
\* angular_velocity: Query<(&AngularVelocity, &mut Transform)>
AngularVelocityQuery == With("AngularVelocity") \cap With("Transform")
\* mouse_boid: Query<&mut Transform, With<MouseBoid>>
MouseBoids == With("MouseBoid") \cap With("Transform")

TransformOf(e) == [translation |-> translation[e], rotation |-> rotation[e]]

(***************************************************************************)
(* boid_sense                                                              *)
(***************************************************************************)
NONE == [some |-> FALSE,
         neighbor_map |-> [e \in {} |-> <<>>],
         too_close_map |-> [e \in {} |-> <<>>]]

\* the inner loop of boid_sense for one radius: one pass over boids.iter(),
\* the pseudo boids appended on every pass
RECURSIVE inner_loop(_, _, _, _, _)
inner_loop(others, this, radius, pseudo, acc) ==
  IF others = <<>> THEN acc
  ELSE LET other == Head(others)
           seen  == IF distance_le(this, translation[other], radius)
                    THEN Append(acc, other) ELSE acc
       IN inner_loop(Tail(others), this, radius, pseudo, seen \o pseudo)

boid_sense ==
  [some |-> TRUE,
   neighbor_map |->
     [e \in SenseBoids |->
        inner_loop(Iter(SenseBoids), translation[e], boid[e].neighbor_radius,
                   Iter(PseudoBoids), <<>>)],
   too_close_map |->
     [e \in SenseBoids |->
        inner_loop(Iter(SenseBoids), translation[e], boid[e].personal_radius,
                   Iter(PseudoBoids), <<>>)]]

(***************************************************************************)
(* cohesion, separation, boid_control                                      *)
(***************************************************************************)
RECURSIVE Sum(_)
Sum(vs) == IF vs = <<>> THEN ZERO ELSE VAdd(Head(vs), Sum(Tail(vs)))

\* (sum / count) - at, up to the positive factor count that normalize()
\* cancels; 0 / 0 is NaN
centroid_minus(sum, count, at) ==
  IF count = 0 \/ sum.nan \/ at.nan THEN NAN_VEC
  ELSE Vec(sum.x - count * at.x, sum.y - count * at.y)

\* at - (sum / count), likewise
minus_centroid(at, sum, count) ==
  IF count = 0 \/ sum.nan \/ at.nan THEN NAN_VEC
  ELSE Vec(count * at.x - sum.x, count * at.y - sum.y)

Translations(boids) == [i \in DOMAIN boids |-> boids[i].translation]

\* variant: cohesion without its is_nan() guard
cohesion_unguarded(this, boids) ==
  LET neighbors == Translations(boids)
  IN normalize(centroid_minus(Sum(neighbors), Len(neighbors), this.translation))

cohesion(this, boids) ==
  LET neighbors == Translations(boids)
      sum   == Sum(neighbors)
      count == Len(neighbors)
      dir   == normalize(centroid_minus(sum, count, this.translation))
  IN IF is_nan(dir) THEN ZERO ELSE dir

separation(this, boids) ==
  LET neighbors == Translations(boids)
      sum   == Sum(neighbors)
      count == Len(neighbors)
      dir   == normalize(minus_centroid(this.translation, sum, count))
  IN IF is_nan(dir) THEN ZERO ELSE dir

\* the unwrap()s of one iteration of boid_control's loop all succeed
Resolves(sd, entity) ==
  /\ entity \in DOMAIN sd.neighbor_map
  /\ entity \in DOMAIN sd.too_close_map
  /\ \A a \in Range(sd.neighbor_map[entity]) : a \in Transforms
  /\ \A a \in Range(sd.too_close_map[entity]) : a \in Transforms
  /\ entity \in Transforms
  /\ entity \in AngVelocities

Resolved(ids) == [i \in DOMAIN ids |-> TransformOf(ids[i])]

forward_of(this) == normalize(mul_vec3(this.rotation, Y))

\* one iteration of boid_control's loop: the value stored in ang_vel.0
radians_delta(sd, entity) ==
  LET neighbors == Resolved(sd.neighbor_map[entity])
      too_close == Resolved(sd.too_close_map[entity])
      this      == TransformOf(entity)
      forward   == forward_of(this)
      cohesion_angle   == radians_to(forward, cohesion(this, neighbors))
      separation_angle == radians_to(forward, separation(this, too_close))
  IN HalfSum(cohesion_angle, separation_angle)

(***************************************************************************)
(* The world that setup and mouse_setup leave behind.  The claims speak of *)
(* any agent set (a lone agent, a mirrored pair, pseudo-agents or none),   *)
(* so the spawn loops' counts and the literals of the spawned poses are    *)
(* drawn from the sets below; lengths are in lattice units.  Every boid    *)
(* gets the same Boid radii and Velocity, and AngularVelocity(0.5 * PI),   *)
(* as in setup; every mouse boid starts at Vec3::ZERO, as in mouse_setup.  *)
(***************************************************************************)
StartTranslations == {Vec(0, 0), Vec(1, 0), Vec(0, 2)}
\* identity (forward = Y), a quarter turn left (forward = -X), right (X)
StartRotations == {IDENTITY, Vec(0, 1), Vec(0, -1)}
RadiiChoices == {[neighbor_radius |-> 2, personal_radius |-> 1]}
SpeedChoices == {1}
\* Time::delta_seconds(): whole, even numbers of seconds
DtChoices == {0, 2}
\* the CursorMoved events delivered in one tick (window coordinates): the
\* cursor moves in every tick
EventChoices == {<<Vec(251, 250)>>}
\* how many mouse boids mouse_setup's loop spawns
PseudoCounts == {0, 1}

WINDOW_WIDTH == 500
WINDOW_HEIGHT == 500

MOUSE_COMPONENTS == {"PseudoBoid", "MouseBoid", "Sprite", "Transform"}
BOID_COMPONENTS == {"Sprite", "Transform", "Boid", "Velocity", "AngularVelocity"}

Systems == {"chain", "velocity", "angular_velocity", "mouse_boid"}

Init ==
  \E p \in PseudoCounts, n \in 1..MaxBoids :
    LET mice  == 1..p
        boids == (p + 1)..(p + n)
    IN \E t \in [boids -> StartTranslations], r \in [boids -> StartRotations],
          radii \in RadiiChoices, v \in SpeedChoices :
         /\ components = [e \in mice \cup boids |->
                            IF e \in mice THEN MOUSE_COMPONENTS
                            ELSE BOID_COMPONENTS]
         /\ translation = [e \in mice \cup boids |->
                             IF e \in mice THEN ZERO ELSE t[e]]
         /\ rotation = [e \in mice \cup boids |->
                          IF e \in mice THEN IDENTITY ELSE r[e]]
         /\ boid = [e \in boids |-> radii]
         /\ speed = [e \in boids |-> v]
         /\ ang_vel = [e \in boids |-> HALF_PI]
         /\ sensory_data = NONE
         /\ ran = Systems
         /\ tick = 0
         /\ dt = 0
         /\ cursor_events = <<>>
         /\ panicked = FALSE

(***************************************************************************)
(* The frame loop.  A tick starts when every system of the previous one    *)
(* has finished; the clock and the window events of the tick are inputs.   *)
(* main adds the four systems to one stage with no label and no            *)
(* before/after constraint, so within a tick each runs once, in any order; *)
(* systems whose queries touch the same component of the same archetype,   *)
(* one of them mutably, never overlap.  boid_sense.chain(boid_control) is  *)
(* one system: boid_control runs on boid_sense's output before the chain   *)
(* releases the boids' Transforms; mouse_boid touches only the mouse       *)
(* boids' archetype and may run beside it.                                 *)
(***************************************************************************)
BeginTick ==
  /\ ~panicked
  /\ ran = Systems
  /\ tick < MaxTicks
  /\ tick' = tick + 1
  /\ ran' = {}
  /\ dt' \in DtChoices
  /\ cursor_events' \in EventChoices
  /\ UNCHANGED <<components, translation, rotation, boid, speed, ang_vel,
                 sensory_data, panicked>>

BoidSense ==
  /\ ~panicked
  /\ "chain" \notin ran
  /\ ~sensory_data.some
  /\ sensory_data' = boid_sense
  /\ UNCHANGED <<components, translation, rotation, boid, speed, ang_vel,
                 ran, tick, dt, cursor_events, panicked>>

\* boid_control's loop: the iterations before the first failing unwrap()
\* have stored their angular velocity; a failing unwrap() aborts the app
ControlLoop ==
  LET bad == {e \in ControlBoids : ~Resolves(sensory_data, e)}
      reached(e) == \A b \in bad : e < b
  IN /\ ang_vel' = [e \in DOMAIN ang_vel |->
                      IF e \in ControlBoids /\ reached(e)
                      THEN radians_delta(sensory_data, e) ELSE ang_vel[e]]
     /\ panicked' = (bad # {})
     /\ ran' = IF bad = {} THEN ran \cup {"chain"} ELSE ran
     /\ sensory_data' = NONE

\* variant: boid_control applying the turn to the Transform itself
BoidControlTurning ==
  /\ ~panicked
  /\ sensory_data.some
  /\ ControlLoop
  /\ rotation' = [e \in DOMAIN rotation |->
                    IF e \in DOMAIN ang_vel
                    THEN normalize(CMul(from_rotation_z(ang_vel'[e], 2), rotation[e]))
                    ELSE rotation[e]]
  /\ UNCHANGED <<components, translation, boid, speed, tick, dt,
                 cursor_events>>

BoidControl ==
  /\ ~panicked
  /\ sensory_data.some
  /\ ControlLoop
  /\ UNCHANGED <<components, translation, rotation, boid, speed, tick, dt,
                 cursor_events>>

Velocity ==
  /\ ~panicked
  /\ "velocity" \notin ran
  /\ ~sensory_data.some
  /\ translation' =
       [e \in DOMAIN translation |->
          IF e \in VelocityQuery
          THEN LET direction == mul_vec3(rotation[e], Y)
               IN VAdd(translation[e], Scaled(dt * speed[e], direction))
          ELSE translation[e]]
  /\ ran' = ran \cup {"velocity"}
  /\ UNCHANGED <<components, rotation, boid, speed, ang_vel, sensory_data,
                 tick, dt, cursor_events, panicked>>

AngularVelocity ==
  /\ ~panicked
  /\ "angular_velocity" \notin ran
  /\ ~sensory_data.some
  /\ rotation' =
       [e \in DOMAIN rotation |->
          IF e \in AngularVelocityQuery
          THEN normalize(CMul(from_rotation_z(ang_vel[e], dt), rotation[e]))
          ELSE rotation[e]]
  /\ ran' = ran \cup {"angular_velocity"}
  /\ UNCHANGED <<components, translation, boid, speed, ang_vel, sensory_data,
                 tick, dt, cursor_events, panicked>>

\* ev.position - size / 2.0
new_position(ev) ==
  Vec(ev.x - (WINDOW_WIDTH \div 2), ev.y - (WINDOW_HEIGHT \div 2))

MouseBoid ==
  /\ ~panicked
  /\ "mouse_boid" \notin ran
  /\ translation' =
       [e \in DOMAIN translation |->
          IF e \in MouseBoids /\ cursor_events # <<>>
          THEN new_position(cursor_events[Len(cursor_events)])
          ELSE translation[e]]
  /\ cursor_events' = <<>>
  /\ ran' = ran \cup {"mouse_boid"}
  /\ UNCHANGED <<components, rotation, boid, speed, ang_vel, sensory_data,
                 tick, dt, panicked>>

Next ==
  \/ BeginTick
  \/ BoidSense
  \/ BoidControl
  \/ Velocity
  \/ AngularVelocity
  \/ MouseBoid

Spec == Init /\ [][Next]_vars

(***************************************************************************)
(* Vocabulary of the properties.                                           *)
(***************************************************************************)
Agents == With("Boid")
PseudoAgents == With("PseudoBoid")

\* boid_control has run in this tick and no integration system has run
\* since: the stored angular velocities belong to the current poses
AfterControl ==
  /\ tick > 0
  /\ ~panicked
  /\ "chain" \in ran
  /\ "velocity" \notin ran
  /\ "angular_velocity" \notin ran

PoseChanged(e) ==
  translation'[e] # translation[e] \/ rotation'[e] # rotation[e]

NoDuplicates(q) == \A i, j \in DOMAIN q : q[i] = q[j] => i = j

\* -w for a stored angular velocity w
NegF32(w) ==
  IF w.nan THEN w
  ELSE IF w.s = 0 /\ w.c < 0 THEN F32(w.c, w.s, -w.k - 1)
  ELSE F32(w.c, -w.s, -w.k)

\* the image of point v under the reflection that swaps the positions of
\* p and q: across the vertical line between them ("v"), or the horizontal
MirrorPoint(axis, p, q, v) ==
  IF axis = "v" THEN Vec(p.x + q.x - v.x, v.y) ELSE Vec(v.x, p.y + q.y - v.y)

MirrorRotation(axis, r) ==
  IF axis = "v" THEN Vec(r.x, -r.y) ELSE Vec(-r.x, r.y)

Mirrored(axis, P, Q) ==
  /\ translation[Q] = MirrorPoint(axis, translation[P], translation[Q], translation[P])
  /\ rotation[Q] = MirrorRotation(axis, rotation[P])
  /\ boid[P] = boid[Q]
  /\ speed[P] = speed[Q]

\* the whole flock is its own mirror image
FlockSymmetric(axis, P, Q) ==
  \A e \in Agents :
    Cardinality({f \in Agents : translation[f] = translation[e]})
      = Cardinality({f \in Agents : translation[f] =
                       MirrorPoint(axis, translation[P], translation[Q], translation[e])})

\* the agents within radius r of agent e, and whether a steering target
\* computed from them lies exactly behind e
Within(e, r) ==
  {o \in Agents : Distance2(translation[e], translation[o]) <= r * r}

Behind(e, target) ==
  LET f == mul_vec3(rotation[e], Y)
  IN target # ZERO /\ CrossZ(f, target) = 0 /\ Dot(f, target) < 0

CentroidOffset(e, S) ==
  Vec(Sum([i \in 1..Cardinality(S) |-> translation[Iter(S)[i]]]).x
        - Cardinality(S) * translation[e].x,
      Sum([i \in 1..Cardinality(S) |-> translation[Iter(S)[i]]]).y
        - Cardinality(S) * translation[e].y)

\* the cohesion target points to the centroid, the separation target away
TargetBehind(e) ==
  \/ Behind(e, CentroidOffset(e, Within(e, boid[e].neighbor_radius)))
  \/ Behind(e, VSub(ZERO, CentroidOffset(e, Within(e, boid[e].personal_radius))))

(***************************************************************************)
(* C1.  Within a tick no integration system changes an agent's position or *)
(* orientation before boid_control has written that tick's angular         *)
(* velocities.                                                             *)
(***************************************************************************)
C1_IntegrateAfterPlan ==
  [][(\E e \in Agents : PoseChanged(e)) => "chain" \in ran]_vars

(***************************************************************************)
(* C2.  Every pseudo-agent is in every agent's neighbor list and too-close *)
(* list that boid_sense produces, whatever its distance.                   *)
(***************************************************************************)
C2_PseudoAgentsAlwaysSensed ==
  sensory_data.some =>
    \A a \in Agents, x \in PseudoAgents :
      /\ x \in Range(sensory_data.neighbor_map[a])
      /\ x \in Range(sensory_data.too_close_map[a])

Lone == Cardinality(Agents) = 1 /\ PseudoAgents = {}

C4_LoneAgentNeverTurns ==
  [][Lone => \A e \in Agents : rotation'[e] = rotation[e]]_vars

(***************************************************************************)
(* C5.  Two agents that are mirror images of each other (positions and     *)
(* orientations, same radii and speed) are given angular velocities that   *)
(* are exact negatives of each other by the same run of boid_control.      *)
(* As claimed: for every such pair, a target exactly behind included.      *)
(***************************************************************************)
C5_MirrorNegativesAlways ==
  AfterControl =>
    \A P \in Agents, Q \in Agents, axis \in {"v", "h"} :
      (P # Q /\ Mirrored(axis, P, Q)) => ang_vel[P] = NegF32(ang_vel[Q])

(***************************************************************************)
(* C5, amended.  In a mirror-symmetric flock the angular velocities of a   *)
(* mirrored pair are exact negatives of each other unless a steering       *)
(* target of the agent lies exactly behind it (cross product zero, dot     *)
(* product negative).                                                      *)
(***************************************************************************)
C5_MirrorNegatives ==
  AfterControl =>
    \A P \in Agents, Q \in Agents, axis \in {"v", "h"} :
      (P # Q /\ Mirrored(axis, P, Q) /\ FlockSymmetric(axis, P, Q)
         /\ ~TargetBehind(P))
        => ang_vel[P] = NegF32(ang_vel[Q])

\* a mirrored pair that boid_control has told to turn, in opposite senses
C5_Witness ==
  /\ AfterControl
  /\ \E P \in Agents, Q \in Agents, axis \in {"v", "h"} :
       /\ P # Q
       /\ Mirrored(axis, P, Q)
       /\ FlockSymmetric(axis, P, Q)
       /\ ~TargetBehind(P)
       /\ ang_vel[P] # ZERO_F32
       /\ ang_vel[P] = NegF32(ang_vel[Q])

(***************************************************************************)
(* C6.  No stored angular velocity is NaN: cohesion and separation give    *)
(* the zero vector for an empty list and for a list whose centroid is the  *)
(* agent's own position, the signed angle to the zero vector is 0, and an  *)
(* agent both of whose centroids coincide with it is told to go straight.  *)
(***************************************************************************)
Coincides(e, ids) ==
  LET sum == Sum([i \in DOMAIN ids |-> translation[ids[i]]])
  IN sum.x = Len(ids) * translation[e].x /\ sum.y = Len(ids) * translation[e].y

C6_NoNaN ==
  /\ \A e \in DOMAIN ang_vel : ~ang_vel[e].nan
  /\ \A e \in Agents :
       /\ cohesion(TransformOf(e), <<>>) = ZERO
       /\ separation(TransformOf(e), <<>>) = ZERO
       /\ radians_to(forward_of(TransformOf(e)), ZERO) = ZERO_ANGLE
  /\ sensory_data.some =>
       \A e \in Agents :
         /\ Coincides(e, sensory_data.neighbor_map[e]) =>
              cohesion(TransformOf(e), Resolved(sensory_data.neighbor_map[e])) = ZERO
         /\ Coincides(e, sensory_data.too_close_map[e]) =>
              separation(TransformOf(e), Resolved(sensory_data.too_close_map[e])) = ZERO
  /\ AfterControl =>
       \A e \in Agents :
         (\A o \in Within(e, boid[e].neighbor_radius)
                      \cup Within(e, boid[e].personal_radius) :
            translation[o] = translation[e])
           => ang_vel[e] = ZERO_F32

\* two agents at the same point, after boid_control has run on them
C6_Witness ==
  /\ AfterControl
  /\ \E P \in Agents, Q \in Agents :
       /\ P # Q
       /\ translation[P] = translation[Q]
       /\ ang_vel[P] = ZERO_F32
       /\ ang_vel[Q] = ZERO_F32

(***************************************************************************)
(* C7.  boid_sense and boid_control change no position and no orientation *)
(* (of agents or pseudo-agents) and no component but the angular           *)
(* velocity; an agent's pose changes only in velocity and                  *)
(* angular_velocity.                                                       *)
(***************************************************************************)
C7_SenseAndPlanKeepPoses ==
  [][/\ (BoidSense \/ BoidControl) =>
          /\ translation' = translation
          /\ rotation' = rotation
          /\ speed' = speed
          /\ boid' = boid
          /\ components' = components
     /\ (\E e \in Agents : PoseChanged(e)) => (Velocity \/ AngularVelocity)]_vars

\* boid_control has overwritten the angular velocity that setup stored
C7_Witness ==
  /\ AfterControl
  /\ \E e \in Agents : ang_vel[e] # HALF_PI

(***************************************************************************)
(* C8.  The cursor positions of a tick have been applied to the            *)
(* pseudo-agents by mouse_boid before that tick's boid_sense runs.         *)
(***************************************************************************)
C8_MouseBeforeSense ==
  (sensory_data.some /\ PseudoAgents # {}) => cursor_events = <<>>

(***************************************************************************)
(* C9.  No identifier occurs twice in a neighbor list or a too-close list  *)
(* produced by boid_sense.                                                 *)
(***************************************************************************)
C9_ListsAreSets ==
  sensory_data.some =>
    \A a \in Agents :
      /\ NoDuplicates(sensory_data.neighbor_map[a])
      /\ NoDuplicates(sensory_data.too_close_map[a])

\* several agents sense each other while a pseudo-agent exists
C9_Witness ==
  /\ sensory_data.some
  /\ PseudoAgents # {}
  /\ \E a \in Agents : Len(sensory_data.neighbor_map[a]) >= 2

(***************************************************************************)
(* C10.  boid_control never aborts: every agent it iterates has an entry   *)
(* in both maps and every identifier in those entries has a Transform in   *)
(* boid_control's lookup, also when pseudo-agents exist.                   *)
(***************************************************************************)
C10_PlanNeverAborts ==
  /\ ~panicked
  /\ sensory_data.some =>
       \A e \in Agents :
         /\ e \in DOMAIN sensory_data.neighbor_map
         /\ e \in DOMAIN sensory_data.too_close_map
         /\ \A a \in Range(sensory_data.neighbor_map[e])
                      \cup Range(sensory_data.too_close_map[e]) :
              {"Transform", "Boid"} \subseteq components[a]

\* boid_control has completed a pass in a world that holds a pseudo-agent
C10_Witness ==
  /\ AfterControl
  /\ PseudoAgents # {}

====
